---- MODULE Spec2Model ----
(***************************************************************************)
(* Screen-capture extension: the three tools list_monitors,                *)
(* take_screenshot and record_screen, their temp files, their subprocess  *)
(* runs and their hand-over to the media store.                            *)
(*                                                                         *)
(* One tool invocation is a sequence of event-loop turns.  Everything the  *)
(* code does between two awaits (execSync, spawnSync, writeFileSync and    *)
(* unlinkSync are synchronous) is one action.  fs.unlink(...).catch() is   *)
(* fire-and-forget: the call is issued in one turn and the file goes away  *)
(* in a later one (UnlinkDone).                                            *)
(*                                                                         *)
(* Numbers are JavaScript numbers on a grid of 1/Scale: the model value g  *)
(* stands for g/Scale, so that Math.round is not the identity.             *)
(***************************************************************************)
EXTENDS Integers, Sequences, FiniteSets, TLC

(***************************************************************************)
(* Bounds of the model.                                                    *)
(***************************************************************************)
NumInv == 2
Scale == 2
MaxScreens == 2

(***************************************************************************)
(* Program constants.                                                      *)
(***************************************************************************)
MinDelay == 0
MaxDelay == 10
MinDuration == 1
ConfigMaxDuration == 60
DefaultMaxDuration == 60
MinFps == 10
MaxFps == 60
DefaultFps == 30
DefaultMonitor == 0
EncodeGrace == 30
ScreenWidth == 1920
ScreenHeight == 1080

Inv == 1..NumInv
\* every invocation allocates at most two temp paths
MaxPaths == 2 * NumInv
TmpPaths == 1..MaxPaths

(***************************************************************************)
(* JavaScript values.  A number carries its value in grid units.  A string *)
(* carries its length (only emptiness is looked at).                       *)
(***************************************************************************)
W(k) == k * Scale
Num(g) == [type |-> "number", v |-> g]
Undefined == [type |-> "undefined", v |-> 0]
JSNull == [type |-> "null", v |-> 0]
NaN == [type |-> "nan", v |-> 0]
Str(len) == [type |-> "string", v |-> len]

MathMin(a, b) == IF a < b THEN a ELSE b
MathMax(a, b) == IF a > b THEN a ELSE b
\* Math.round: the nearest integer, halves rounded up
MathRound(g) == Scale * ((2 * g + Scale) \div (2 * Scale))

(***************************************************************************)
(* config.ts                                                               *)
(***************************************************************************)
EmptyConfig ==
  [ffmpegPath |-> Undefined, defaultMonitor |-> Undefined,
   screenshotFormat |-> "undefined", maxVideoDuration |-> Undefined]

parse(value) ==
  IF ~value.isObject
    THEN EmptyConfig
    ELSE [ffmpegPath |->
            IF value.ffmpegPath.type = "string" THEN value.ffmpegPath ELSE Undefined,
          defaultMonitor |->
            IF value.defaultMonitor.type = "number" THEN value.defaultMonitor ELSE Undefined,
          screenshotFormat |->
            IF value.screenshotFormat \in {"png", "jpeg"}
              THEN value.screenshotFormat ELSE "png",
          maxVideoDuration |->
            IF value.maxVideoDuration.type = "number"
              THEN Num(MathMin(value.maxVideoDuration.v, W(ConfigMaxDuration)))
              ELSE Num(W(ConfigMaxDuration))]

\* the plugin configurations the host may hand to configSchema.parse
RawConfigs ==
  {[isObject |-> FALSE, ffmpegPath |-> Undefined, defaultMonitor |-> Undefined,
    screenshotFormat |-> "undefined", maxVideoDuration |-> Undefined]}
  \cup
  [isObject : {TRUE},
   ffmpegPath : {Undefined, Str(1)},
   defaultMonitor : {Undefined},
   screenshotFormat : {"undefined"},
   maxVideoDuration : {Undefined, Str(1), Num(W(-5)), Num(0), Num(W(30)), Num(W(100))}]
  \cup
  [isObject : {TRUE},
   ffmpegPath : {Undefined},
   defaultMonitor : {Undefined, Str(1), Num(W(1))},
   screenshotFormat : {"undefined", "jpeg", "bmp"},
   maxVideoDuration : {Undefined}]

(***************************************************************************)
(* State.                                                                  *)
(***************************************************************************)
VARIABLES
  pluginConfig,  \* api.pluginConfig: the parsed configuration, never written again
  inv,           \* inv[i]: the locals of invocation i and what it did so far
  disk,          \* disk[p]: the temp file at path p: "absent", "empty" or "data"
  pending,       \* pending[p]: fs.unlink(p) calls issued and not yet carried out
  issued,        \* issued[p]: delete attempts issued for p so far
  nextPath,      \* the next path crypto.randomUUID() names
  media,         \* what the media store persisted: a sequence of entries
  writer,        \* writer[p]: the invocation that last put content at path p, 0 if none
  host           \* the plugin host: process.platform, the tools registered, the log

vars == <<pluginConfig, inv, disk, pending, issued, nextPath, media, writer, host>>

NoPath == [dir |-> "none", id |-> 0]
NoBounds == JSNull
NoSteps ==
  [writes |-> 0, execs |-> 0, reads |-> 0, saves |-> 0, builds |-> 0,
   probes |-> 0, enums |-> 0, encodes |-> 0, stats |-> 0, waits |-> 0]

NoResult ==
  [kind |-> "none", error |-> "", details |-> "", hint |-> FALSE, platform |-> FALSE,
   path |-> NoPath, size |-> 0, contentType |-> "",
   monitor |-> Undefined, delay |-> 0, format |-> "", duration |-> JSNull, fps |-> 0,
   monitorBounds |-> NoBounds, monitors |-> <<>>, count |-> 0, refs |-> {}]

NoArgs == [delay |-> Undefined, monitor |-> Undefined, duration |-> Undefined, fps |-> Undefined]

NoSaved == [ok |-> FALSE, path |-> NoPath, size |-> 0, contentType |-> ""]

Idle ==
  [pc |-> "idle", tool |-> "none", args |-> NoArgs,
   delay |-> 0, timer |-> 0, monitor |-> Undefined, format |-> "",
   duration |-> JSNull, fps |-> 0,
   ffmpeg |-> "not run", probed |-> <<>>, firstOk |-> "null", probeEnv |-> <<>>,
   monitorBounds |-> NoBounds, enumExit |-> "not run",
   outputPath |-> 0, scriptPath |-> 0,
   screens |-> 0, captured |-> -1, verified |-> "none", buffer |-> "none", bufferBy |-> 0,
   encoder |-> [fps |-> 0, t |-> 0, timeout |-> 0, region |-> NoBounds, exit |-> "not run"],
   saved |-> NoSaved, steps |-> NoSteps, envFail |-> "none", res |-> NoResult,
   child |-> "none", promise |-> "none"]

\* the values of process.platform the model distinguishes
Platforms == {"win32", "linux", "darwin"}

\* the three tools of the plugin
ToolNames == {"list_monitors", "take_screenshot", "record_screen"}

\* the host before it calls register(api)
Unregistered(platform) ==
  [platform |-> platform, registered |-> FALSE, tools |-> {}, warnings |-> 0, infos |-> 0]

\* no file, no pending deletion, nothing persisted
EmptyWorld ==
  /\ disk = [p \in TmpPaths |-> "absent"]
  /\ pending = [p \in TmpPaths |-> 0]
  /\ issued = [p \in TmpPaths |-> 0]
  /\ nextPath = 1
  /\ media = <<>>
  /\ writer = [p \in TmpPaths |-> 0]

Init ==
  /\ \E raw \in RawConfigs : pluginConfig = parse(raw)
  /\ inv = [i \in Inv |-> IF i = 1 THEN Idle ELSE [Idle EXCEPT !.pc = "off"]]
  /\ EmptyWorld
  /\ \E platform \in Platforms : host = Unregistered(platform)

(***************************************************************************)
(* Registration (index.ts, screenCapturePlugin.register)                   *)
(***************************************************************************)
\* a register that skips the platform check
registerEverywhere(h) ==
  [h EXCEPT !.registered = TRUE, !.tools = ToolNames, !.infos = @ + 1]

\* register(api): on a platform other than win32 one warning and nothing
\* else; on win32 the three registerTool calls and one info line
register(h) ==
  IF h.platform # "win32"
    THEN [h EXCEPT !.registered = TRUE, !.warnings = @ + 1]
    ELSE [h EXCEPT !.registered = TRUE, !.tools = ToolNames, !.infos = @ + 1]

\* the host loads the plugin: it calls register once
Register ==
  /\ ~host.registered
  /\ host' = register(host)
  /\ UNCHANGED <<pluginConfig, inv, disk, pending, issued, nextPath, media, writer>>

(***************************************************************************)
(* Shared helpers.                                                         *)
(***************************************************************************)
\* index.ts jsonResult / video-tool.ts jsonResult: an error payload
jsonError(error, details, hint, platform) ==
  [NoResult EXCEPT !.kind = "error", !.error = error, !.details = details,
                   !.hint = hint, !.platform = platform]

\* fs.unlink(p).catch(() => {}) for every p of ps: the calls are issued now
Bump(f, ps) == [p \in TmpPaths |-> f[p] + (IF p \in ps THEN 1 ELSE 0)]

\* a turn whose temp file names carry no randomUUID(): every invocation gets
\* the same names
TurnSyncFixedNames(i, s, d, unlinks, syncUnlinks, allocated) ==
  /\ inv' = [inv EXCEPT ![i] = s]
  /\ disk' = d
  /\ pending' = Bump(pending, unlinks)
  /\ issued' = Bump(Bump(issued, unlinks), syncUnlinks)
  /\ nextPath' = nextPath
  /\ writer' = [p \in TmpPaths |->
                  IF d[p] # disk[p] /\ d[p] # "absent" THEN i ELSE writer[p]]
  /\ host' = host

\* one turn of invocation i: its new locals, the disk it leaves, the fs.unlink
\* calls it issued, the unlinkSync calls it made and the paths it allocated
TurnSync(i, s, d, unlinks, syncUnlinks, allocated) ==
  /\ inv' = [inv EXCEPT ![i] = s]
  /\ disk' = d
  /\ pending' = Bump(pending, unlinks)
  /\ issued' = Bump(Bump(issued, unlinks), syncUnlinks)
  /\ nextPath' = nextPath + allocated
  /\ writer' = [p \in TmpPaths |->
                  IF d[p] # disk[p] /\ d[p] # "absent" THEN i ELSE writer[p]]
  /\ host' = host

Turn(i, s, d, unlinks, allocated) == TurnSync(i, s, d, unlinks, {}, allocated)

\* a fire-and-forget unlink is carried out: the file is gone (ENOENT is swallowed)
UnlinkDone(p) ==
  /\ pending[p] > 0
  /\ pending' = [pending EXCEPT ![p] = @ - 1]
  /\ disk' = [disk EXCEPT ![p] = "absent"]
  /\ UNCHANGED <<pluginConfig, inv, issued, nextPath, media, writer, host>>

\* what writeFileSync leaves behind: the whole script, or an error with nothing
\* or a truncated file on disk
WriteOutcomes == {"ok", "fail", "partial"}
AfterWrite(w) == CASE w = "ok" -> "data" [] w = "partial" -> "empty" [] OTHER -> "absent"

\* how a subprocess run ends: exit 0, a non-zero exit, the timeout
ExecOutcomes == {"ok", "fail", "timeout"}

\* details: error.message.  The temp paths the message of a caught error
\* names: writeFileSync and readFile errors end in "open '<path>'", execSync
\* on a non-zero exit throws "Command failed: <command line>" and the command
\* line holds the script path; the timeout error and the errors the handlers
\* throw themselves name no path.
ErrorPaths(s, details) ==
  CASE details = "write failed" -> {s.scriptPath}
    [] details = "fail" -> {s.scriptPath}
    [] details = "ENOENT" -> {s.outputPath}
    [] OTHER -> {}

(***************************************************************************)
(* The text a PowerShell script prints: a sequence of lines, a line a     *)
(* sequence of "|"-separated fields.  A field is a decimal integer or      *)
(* some other text.                                                        *)
(***************************************************************************)
IntField(n) == [kind |-> "int", n |-> n]
TextField(t) == [kind |-> "text", n |-> 0, text |-> t]
MissingField == [kind |-> "missing", n |-> 0]

\* const [a, b, ...] = line.split("|"): the k-th field, undefined past the end
Field(line, k) == IF k <= Len(line) THEN line[k] ELSE MissingField

\* parseInt(f, 10)
parseInt(f) == IF f.kind = "int" THEN Num(W(f.n)) ELSE NaN

\* [DpiHelper]::SetProcessDPIAware() is an expression statement: PowerShell
\* writes its Boolean value to the output stream
DpiLine == <<TextField("True")>>

\* the display at position k of [System.Windows.Forms.Screen]::AllScreens
ScreenX(k) == k * ScreenWidth
ScreenName(k) == IF k = 0 THEN "DISPLAY1" ELSE "DISPLAYn"

(***************************************************************************)
(* list_monitors (index.ts)                                                *)
(***************************************************************************)
\* what createListMonitorsScript() prints with n displays attached
createListMonitorsScript(n) ==
  <<DpiLine>> \o
  [k \in 1..n |->
     <<IntField(k - 1), TextField(ScreenName(k - 1)), IntField(ScreenWidth),
       IntField(ScreenHeight), IntField(ScreenX(k - 1)), IntField(0),
       TextField(IF k = 1 THEN "PRIMARY" ELSE "")>>]

\* the .map callback: one output line to one monitor descriptor
parseMonitorLine(line) ==
  [index |-> parseInt(Field(line, 1)),
   name |-> IF Field(line, 2).kind = "text" THEN Field(line, 2).text ELSE "",
   width |-> parseInt(Field(line, 3)),
   height |-> parseInt(Field(line, 4)),
   x |-> parseInt(Field(line, 5)),
   y |-> parseInt(Field(line, 6)),
   primary |-> Field(line, 7) = TextField("PRIMARY")]

\* the catch block of list_monitors
ListCatch(s, details) ==
  [s EXCEPT !.pc = "done",
            !.res = [jsonError("Failed to list monitors", details, FALSE, FALSE)
                       EXCEPT !.refs = ErrorPaths(s, details)]]

\* the paths the catch block of list_monitors unlinks
ListCatchUnlinks(s) == {s.scriptPath}

\* execute of list_monitors: it has no await, the whole call is one turn
ListMonitors(i) ==
  /\ "list_monitors" \in host.tools
  /\ inv[i].pc = "idle"
  /\ media' = media
  /\ pluginConfig' = pluginConfig
  /\ \E w \in WriteOutcomes :
       LET s0 == [inv[i] EXCEPT !.tool = "list", !.scriptPath = nextPath,
                                !.steps.writes = 1,
                                !.envFail = IF w = "ok" THEN "none" ELSE "write"]
           d0 == [disk EXCEPT ![nextPath] = AfterWrite(w)]
       IN IF w # "ok"
            THEN Turn(i, ListCatch(s0, "write failed"), d0, ListCatchUnlinks(s0), 1)
            ELSE \E x \in ExecOutcomes, n \in 1..MaxScreens :
                   LET s1 == [s0 EXCEPT !.steps.execs = 1, !.screens = n,
                                        !.envFail = IF x = "ok" THEN "none" ELSE x]
                       monitors == [k \in 1..Len(createListMonitorsScript(n)) |->
                                      parseMonitorLine(createListMonitorsScript(n)[k])]
                   IN IF x # "ok"
                        THEN Turn(i, ListCatch(s1, x), d0, ListCatchUnlinks(s1), 1)
                        ELSE Turn(i,
                                  [s1 EXCEPT !.pc = "done",
                                             !.res = [NoResult EXCEPT
                                                        !.kind = "success",
                                                        !.hint = TRUE,
                                                        !.monitors = monitors,
                                                        !.count = Len(monitors)]],
                                  d0, {s1.scriptPath}, 1)

(***************************************************************************)
(* The media store and the image-result builder are called, not defined,  *)
(* by the extension: save persists the bytes it is handed or rejects, and  *)
(* imageResultFromFile builds the result or rejects.                       *)
(***************************************************************************)
SaveOutcomes == {"ok", "fail"}
BuildOutcomes == {"ok", "fail"}

\* the reference save returns for the entry it stored as number k
MediaPath(k) == [dir |-> "media", id |-> k]

\* saveMediaBuffer(buffer, contentType, subdir, maxBytes, originalFilename)
saveMediaBuffer(i, buffer, contentType, subdir) ==
  [by |-> i, bytes |-> buffer, contentType |-> contentType, subdir |-> subdir]

Saved(k, entry) ==
  [ok |-> TRUE, path |-> MediaPath(k),
   size |-> IF entry.bytes = "data" THEN 1 ELSE 0, contentType |-> entry.contentType]

(***************************************************************************)
(* take_screenshot (index.ts)                                              *)
(***************************************************************************)
\* the requests a caller may send: delay and monitor, each absent, not a
\* number, or a number below, inside or above its documented range
ShotArgs ==
  [delay : {Undefined, Str(1), Num(W(-1)), Num(0), Num(W(2) + 1), Num(W(10)), Num(W(11))},
   monitor : {Undefined, Num(0), Num(W(1)), Num(W(MaxScreens)), Num(W(MaxScreens + 3))},
   duration : {Undefined},
   fps : {Undefined}]

\* const delay = typeof params.delay === "number" ? Math.min(Math.max(...)) : 0
ShotDelay(params) ==
  IF params.delay.type = "number"
    THEN MathMin(MathMax(params.delay.v, W(MinDelay)), W(MaxDelay))
    ELSE 0

\* const monitor = typeof params.monitor === "number" ? params.monitor
\*                                                    : (pluginConfig.defaultMonitor ?? 0)
ShotMonitor(params, config) ==
  IF params.monitor.type = "number"
    THEN params.monitor
    ELSE IF config.defaultMonitor.type \in {"undefined", "null"}
           THEN Num(W(DefaultMonitor))
           ELSE config.defaultMonitor

\* const format = pluginConfig.screenshotFormat ?? "png"
ShotFormat(config) ==
  IF config.screenshotFormat = "undefined" THEN "png" ELSE config.screenshotFormat

MimeType(format) == IF format = "jpeg" THEN "image/jpeg" ELSE "image/png"

\* a script without the "-ge $screens.Length" fallback
createScreenshotScriptNoFallback(monitorIndex, n) == monitorIndex \div Scale

\* createScreenshotScript: the display the generated script captures with n
\* displays attached ($monitorIndex -ge $screens.Length falls back to 0)
createScreenshotScript(monitorIndex, n) ==
  IF monitorIndex >= W(n) THEN 0 ELSE monitorIndex \div Scale

\* what the script leaves at outputPath: whatever $bitmap.Save wrote when the
\* display exists, nothing when $screens[$monitorIndex] is $null
ScriptOutput(target, n, o) == IF target \in 0..(n - 1) THEN o ELSE "absent"

\* a catch block that forgets the output image
ShotCatchUnlinksScriptOnly(s) == {s.scriptPath}

\* the two fs.unlink calls of the catch block
ShotCatchUnlinks(s) == {s.outputPath, s.scriptPath}

\* the two fs.unlink calls after saveMediaBuffer returned
ShotCleanupUnlinks(s) == {s.outputPath, s.scriptPath}

\* a catch block that starts the capture over instead of returning
ShotCatchRetries(s, details) == [s EXCEPT !.pc = "delaying"]

\* the catch block of take_screenshot
ShotCatch(s, details) ==
  [s EXCEPT !.pc = "done",
            !.res = [jsonError("Screenshot capture failed", details, FALSE, TRUE)
                       EXCEPT !.refs = ErrorPaths(s, details)]]

\* from the allocation of the temp paths to the await of fs.readFile
ShotCapture(i, s) ==
  \E w \in WriteOutcomes :
    LET s0 == [s EXCEPT !.outputPath = nextPath, !.scriptPath = nextPath + 1,
                        !.steps.writes = @ + 1,
                        !.envFail = IF w = "ok" THEN "none" ELSE "write"]
        d0 == [disk EXCEPT ![s0.scriptPath] = AfterWrite(w)]
    IN IF w # "ok"
         THEN Turn(i, ShotCatch(s0, "write failed"), d0, ShotCatchUnlinks(s0), 2)
         ELSE \E x \in ExecOutcomes, n \in 1..MaxScreens, o \in {"absent", "empty", "data"} :
                LET target == createScreenshotScript(s0.monitor.v, n)
                    out == ScriptOutput(target, n, o)
                    s1 == [s0 EXCEPT !.steps.execs = @ + 1, !.screens = n,
                                     !.captured = IF out = "absent" THEN -1 ELSE target,
                                     !.envFail = IF x # "ok" THEN x
                                                 ELSE IF o = "absent" THEN "no output"
                                                 ELSE "none"]
                    d1 == [d0 EXCEPT ![s0.outputPath] = out]
                IN IF x # "ok"
                     THEN Turn(i, ShotCatch(s1, x), d1, ShotCatchUnlinks(s1), 2)
                     ELSE Turn(i, [s1 EXCEPT !.pc = "reading"], d1, {}, 2)

\* execute of take_screenshot up to its first await
TakeScreenshotWith(i, params) ==
  /\ "take_screenshot" \in host.tools
  /\ inv[i].pc = "idle"
  /\ UNCHANGED <<pluginConfig, media>>
  /\ LET s == [inv[i] EXCEPT !.tool = "shot", !.args = params,
                               !.delay = ShotDelay(params),
                               !.monitor = ShotMonitor(params, pluginConfig),
                               !.format = ShotFormat(pluginConfig)]
       IN IF s.delay > 0
            THEN Turn(i, [s EXCEPT !.pc = "delaying", !.timer = s.delay,
                                      !.steps.waits = @ + 1],
                      disk, {}, 0)
            ELSE ShotCapture(i, s)

\* a call of take_screenshot with any of the requests of ShotArgs
TakeScreenshot(i) == \E params \in ShotArgs : TakeScreenshotWith(i, params)

\* the setTimeout of delay * 1000 ms fires
ShotDelayed(i) ==
  /\ inv[i].pc = "delaying" /\ inv[i].tool = "shot"
  /\ UNCHANGED <<pluginConfig, media>>
  /\ ShotCapture(i, inv[i])

\* fs.readFile(outputPath) settles; on success saveMediaBuffer is called
ShotRead(i) ==
  /\ inv[i].pc = "reading" /\ inv[i].tool = "shot"
  /\ UNCHANGED <<pluginConfig, media>>
  /\ LET s == [inv[i] EXCEPT !.steps.reads = @ + 1]
     IN IF disk[s.outputPath] = "absent"
          THEN Turn(i, ShotCatch(s, "ENOENT"), disk, ShotCatchUnlinks(s), 0)
          ELSE Turn(i, [s EXCEPT !.pc = "saving", !.buffer = disk[s.outputPath],
                                 !.bufferBy = writer[s.outputPath],
                                 !.verified = disk[s.outputPath]],
                    disk, {}, 0)

\* "return imageResultFromFile(...)" without await: the rejection leaves execute
ShotBuildEscapes(s) ==
  [s EXCEPT !.pc = "done", !.res = [NoResult EXCEPT !.kind = "exception"]]

\* the build step rejected: return await puts the rejection into the catch block
ShotBuildRejected(s) == ShotCatch(s, "result building failed")

\* saveMediaBuffer settles; on success the temp files are unlinked and
\* imageResultFromFile is called
ShotSaved(i) ==
  /\ inv[i].pc = "saving" /\ inv[i].tool = "shot"
  /\ pluginConfig' = pluginConfig
  /\ \E k \in SaveOutcomes :
       LET s == [inv[i] EXCEPT !.steps.saves = @ + 1,
                               !.envFail = IF k = "ok" THEN @ ELSE "save"]
           entry == saveMediaBuffer(i, s.buffer, MimeType(s.format), "screenshots")
       IN IF k # "ok"
            THEN /\ media' = media
                 /\ Turn(i, ShotCatch(s, "save failed"), disk, ShotCatchUnlinks(s), 0)
            ELSE /\ media' = Append(media, entry)
                 /\ Turn(i, [s EXCEPT !.pc = "building",
                                      !.saved = Saved(Len(media) + 1, entry)],
                         disk, ShotCleanupUnlinks(s), 0)

\* imageResultFromFile settles
ShotBuilt(i) ==
  /\ inv[i].pc = "building" /\ inv[i].tool = "shot"
  /\ UNCHANGED <<pluginConfig, media>>
  /\ \E b \in BuildOutcomes :
       LET s == [inv[i] EXCEPT !.steps.builds = @ + 1,
                               !.envFail = IF b = "ok" THEN @ ELSE "build"]
       IN IF b # "ok"
            THEN Turn(i, ShotBuildRejected(s), disk,
                      IF ShotBuildRejected(s).res.kind = "error"
                        THEN ShotCatchUnlinks(s) ELSE {}, 0)
            ELSE Turn(i,
                      [s EXCEPT !.pc = "done",
                                !.res = [NoResult EXCEPT
                                           !.kind = "success",
                                           !.path = s.saved.path,
                                           !.monitor = s.monitor,
                                           !.format = s.format,
                                           !.delay = s.delay]],
                      disk, {}, 0)

(***************************************************************************)
(* record_screen (video-tool.ts)                                           *)
(***************************************************************************)
\* the candidates findFfmpeg probes: the configured path, "ffmpeg" through the
\* executable search path, and the well-known install locations
commonPaths ==
  <<"C:/ffmpeg/bin", "C:/Program Files/ffmpeg/bin", "C:/Program Files (x86)/ffmpeg/bin",
    "~/ffmpeg/bin", "~/scoop/shims">>

Candidates == {"configPath", "ffmpeg"} \cup {commonPaths[k] : k \in DOMAIN commonPaths}

\* how a "-version" probe ends: status 0, another status (or none), or a throw
ProbeOutcomes == {"ok", "fail", "throw"}

\* if (configPath): a non-empty string
Truthy(v) == v.type = "string" /\ v.v > 0

\* for (const p of commonPaths), from the k-th entry on
RECURSIVE CommonLoop(_, _)
CommonLoop(env, k) ==
  IF k > Len(commonPaths)
    THEN [result |-> "null", probed |-> <<>>]
    ELSE IF env[commonPaths[k]] = "ok"
           THEN [result |-> commonPaths[k], probed |-> <<commonPaths[k]>>]
           ELSE LET rest == CommonLoop(env, k + 1)
                IN [result |-> rest.result, probed |-> <<commonPaths[k]>> \o rest.probed]

\* a findFfmpeg that gives up when the configured path does not answer
findFfmpegConfigOnly(configPath, env) ==
  IF Truthy(configPath)
    THEN [result |-> IF env["configPath"] = "ok" THEN "configPath" ELSE "null",
          probed |-> <<"configPath">>]
    ELSE IF env["ffmpeg"] = "ok"
           THEN [result |-> "ffmpeg", probed |-> <<"ffmpeg">>]
           ELSE LET rest == CommonLoop(env, 1)
                IN [result |-> rest.result, probed |-> <<"ffmpeg">> \o rest.probed]

\* a findFfmpeg that falls back to the bare command name instead of null
findFfmpegAssumesPath(configPath, env) ==
  LET first == IF Truthy(configPath) THEN <<"configPath">> ELSE <<>>
      rest == CommonLoop(env, 1)
  IN IF Truthy(configPath) /\ env["configPath"] = "ok"
       THEN [result |-> "configPath", probed |-> first]
       ELSE IF env["ffmpeg"] = "ok" \/ rest.result = "null"
              THEN [result |-> "ffmpeg",
                    probed |-> first \o <<"ffmpeg">> \o
                               (IF env["ffmpeg"] = "ok" THEN <<>> ELSE rest.probed)]
              ELSE [result |-> rest.result,
                    probed |-> first \o <<"ffmpeg">> \o rest.probed]

\* findFfmpeg(configPath) in an environment env: candidate -> probe outcome;
\* the candidate returned ("null" for null) and the candidates probed, in order
findFfmpeg(configPath, env) ==
  LET first == IF Truthy(configPath) THEN <<"configPath">> ELSE <<>>
  IN IF Truthy(configPath) /\ env["configPath"] = "ok"
       THEN [result |-> "configPath", probed |-> first]
       ELSE IF env["ffmpeg"] = "ok"
              THEN [result |-> "ffmpeg", probed |-> first \o <<"ffmpeg">>]
              ELSE LET rest == CommonLoop(env, 1)
                   IN [result |-> rest.result,
                       probed |-> first \o <<"ffmpeg">> \o rest.probed]

\* what createGetMonitorBoundsScript() prints with n displays attached
createGetMonitorBoundsScript(n) ==
  <<DpiLine>> \o
  [k \in 1..n |->
     <<IntField(k - 1), IntField(ScreenX(k - 1)), IntField(0),
       IntField(ScreenWidth), IntField(ScreenHeight)>>]

\* { x: parseInt(x), y: parseInt(y), width: parseInt(width), height: parseInt(height) }
BoundsOfLine(line) ==
  [x |-> parseInt(Field(line, 2)), y |-> parseInt(Field(line, 3)),
   width |-> parseInt(Field(line, 4)), height |-> parseInt(Field(line, 5))]

\* getMonitorBounds(monitorIndex): w is how writeFileSync ends, x how execSync
\* ends, n the number of displays.  The script file is gone when it returns:
\* both paths through it call unlinkSync.
getMonitorBounds(monitorIndex, w, x, n) ==
  IF w # "ok" \/ x # "ok"
    THEN JSNull
    ELSE LET lines == createGetMonitorBoundsScript(n)
             hits == {k \in 1..Len(lines) : parseInt(Field(lines[k], 1)) = Num(monitorIndex)}
         IN IF hits # {}
              THEN BoundsOfLine(lines[CHOOSE k \in hits : \A h \in hits : k <= h])
              ELSE IF Len(lines) > 0 THEN BoundsOfLine(lines[1]) ELSE JSNull

\* how the enumeration inside getMonitorBounds ended: the write threw, or
\* execSync returned, threw on a non-zero exit, or hit its timeout
EnumExit(w, x) == IF w # "ok" THEN "write failed" ELSE x

\* fsSync.unlinkSync(scriptPath) on a file in state f
unlinkSync(f) == "absent"

\* the script file getMonitorBounds leaves behind: written, then unlinked on
\* the way out of the try block or in the catch block
BoundsScriptLeft(w) == unlinkSync(AfterWrite(w))

\* const maxDuration = pluginConfig.maxVideoDuration ?? 60
maxDuration(config) ==
  IF config.maxVideoDuration.type \in {"undefined", "null"}
    THEN W(DefaultMaxDuration)
    ELSE config.maxVideoDuration.v

\* a validation that takes a missing duration for the shortest recording
RecDurationDefaultsToMin(params, max) ==
  IF params.duration.type = "number"
    THEN Num(MathMin(MathMax(MathRound(params.duration.v), W(MinDuration)), max))
    ELSE Num(W(MinDuration))

\* the validated duration: null when params.duration is not a number
RecDuration(params, max) ==
  IF params.duration.type = "number"
    THEN Num(MathMin(MathMax(MathRound(params.duration.v), W(MinDuration)), max))
    ELSE JSNull

\* an fps clamp without Math.round
RecFpsUnrounded(params) ==
  IF params.fps.type = "number"
    THEN MathMin(MathMax(params.fps.v, W(MinFps)), W(MaxFps))
    ELSE W(DefaultFps)

\* const fps = typeof params.fps === "number" ? Math.min(Math.max(Math.round(..))) : 30
RecFps(params) ==
  IF params.fps.type = "number"
    THEN MathMin(MathMax(MathRound(params.fps.v), W(MinFps)), W(MaxFps))
    ELSE W(DefaultFps)

\* a request without a monitor is taken to name display 0
RecMonitorDefaultsToZero(params) ==
  IF params.monitor.type = "number" THEN params.monitor ELSE Num(W(DefaultMonitor))

\* const monitorIndex = typeof params.monitor === "number" ? params.monitor : undefined
RecMonitor(params) == IF params.monitor.type = "number" THEN params.monitor ELSE Undefined

IsNaNBounds(b) == b # JSNull /\ NaN \in {b.x, b.y, b.width, b.height}

\* what the encoder leaves at outputPath: "-offset_x NaN" is not a number the
\* encoder accepts, so it writes nothing; otherwise whatever it got to write
EncoderOutput(region, o) == IF IsNaNBounds(region) THEN "absent" ELSE o

\* the requests a caller may send to record_screen
RecArgs ==
  [delay : {Undefined},
   duration : {Undefined, Str(1), Num(W(-3)), Num(0), Num(W(5)), Num(W(5) + 1),
               Num(W(60)), Num(W(120))},
   fps : {Undefined, Num(W(5)), Num(W(29) + 1), Num(W(60)), Num(W(90))},
   monitor : {Undefined, Num(0), Num(W(MaxScreens + 3))}]

\* the probe environments of the model: at most one candidate does not fail
\* with a non-zero status
MainProbeEnvs ==
  {[c \in Candidates |-> "fail"]}
  \cup {[c \in Candidates |-> IF c = g THEN "ok" ELSE "fail"] :
          g \in {"configPath", "ffmpeg", commonPaths[Len(commonPaths)]}}
  \cup {[c \in Candidates |-> IF c = "configPath" THEN "throw" ELSE "fail"]}
  \cup {[c \in Candidates |-> IF c = "configPath" THEN "throw" ELSE "ok"]}

\* the first candidate of the probe order whose probe would exit with status 0
FirstOk(configPath, env) ==
  LET order == (IF Truthy(configPath) THEN <<"configPath">> ELSE <<>>)
               \o <<"ffmpeg">> \o commonPaths
      oks == {k \in 1..Len(order) : env[order[k]] = "ok"}
  IN IF oks = {} THEN "null" ELSE order[CHOOSE k \in oks : \A h \in oks : k <= h]

\* a catch block that hands the buffer to the media store once more
RecCatchSavesAgain(s, details) == [s EXCEPT !.pc = "saving"]

\* the catch block of record_screen
RecCatch(s, details) ==
  [s EXCEPT !.pc = "done",
            !.res = [jsonError("Screen recording failed", details, TRUE, FALSE)
                       EXCEPT !.refs = ErrorPaths(s, details)]]

\* the fs.unlink call of the catch block
RecCatchUnlinks(s) == {s.outputPath}

\* the early returns of record_screen
RecReturnError(s, error) ==
  [s EXCEPT !.pc = "done", !.res = jsonError(error, "", TRUE, FALSE)]

\* from the allocation of the video path to the await of fs.stat
RecEncode(i, s, d, scripts) ==
  \E x \in ExecOutcomes, o \in {"absent", "empty", "data"} :
    LET out == EncoderOutput(s.monitorBounds, o)
        s1 == [s EXCEPT !.outputPath = nextPath + scripts,
                        !.pc = "stat",
                        !.steps.encodes = @ + 1,
                        !.encoder = [fps |-> s.fps, t |-> s.duration.v,
                                     timeout |-> s.duration.v + W(EncodeGrace),
                                     region |-> s.monitorBounds, exit |-> x],
                        !.envFail = IF o = "absent" THEN "no output" ELSE "none"]
    IN TurnSync(i, s1, [d EXCEPT ![s1.outputPath] = out], {},
                IF scripts = 1 THEN {s.scriptPath} ELSE {}, scripts + 1)

\* execute of record_screen up to its first await
RecordScreenWith(i, params) ==
  /\ "record_screen" \in host.tools
  /\ inv[i].pc = "idle"
  /\ UNCHANGED <<pluginConfig, media>>
  /\ LET s0 == [inv[i] EXCEPT !.tool = "rec", !.args = params,
                                !.duration = RecDuration(params, maxDuration(pluginConfig))]
       IN IF s0.duration = JSNull
            THEN Turn(i, RecReturnError(s0, "duration is required"), disk, {}, 0)
            ELSE \E env \in MainProbeEnvs :
                   LET found == findFfmpeg(pluginConfig.ffmpegPath, env)
                       s1 == [s0 EXCEPT !.monitor = RecMonitor(params),
                                        !.fps = RecFps(params),
                                        !.ffmpeg = found.result,
                                        !.probed = found.probed,
                                        !.firstOk = FirstOk(pluginConfig.ffmpegPath, env),
                                        !.steps.probes = Len(found.probed)]
                   IN IF s1.ffmpeg = "null"
                        THEN Turn(i, RecReturnError(s1, "FFmpeg not found"), disk, {}, 0)
                        ELSE IF s1.monitor = Undefined
                               THEN RecEncode(i, s1, disk, 0)
                               ELSE \E w \in WriteOutcomes, x \in ExecOutcomes,
                                       n \in 1..MaxScreens :
                                      LET s2 == [s1 EXCEPT
                                                   !.scriptPath = nextPath,
                                                   !.steps.writes = 1,
                                                   !.steps.execs = IF w = "ok" THEN 1 ELSE 0,
                                                   !.steps.enums = 1,
                                                   !.screens = n,
                                                   !.enumExit = EnumExit(w, x),
                                                   !.monitorBounds =
                                                     getMonitorBounds(s1.monitor.v, w, x, n)]
                                          d2 == [disk EXCEPT
                                                   ![nextPath] = BoundsScriptLeft(w)]
                                      IN IF s2.monitorBounds = JSNull
                                           THEN TurnSync(i,
                                                  RecReturnError(s2, "Failed to get monitor bounds"),
                                                  d2, {}, {s2.scriptPath}, 1)
                                           ELSE RecEncode(i, s2, d2, 1)

\* a call of record_screen with any of the requests of RecArgs
RecordScreen(i) == \E params \in RecArgs : RecordScreenWith(i, params)

\* a verification that first rejects every run whose exit status is not 0
RecVerifyChecksExit(s) ==
  CASE s.encoder.exit # "ok" -> "encoder failed"
    [] s.verified = "absent" -> "no output file created"
    [] s.verified = "empty" -> "empty file"
    [] OTHER -> ""

\* the two throws after fs.stat: the message thrown, "" when nothing is thrown
RecVerify(s) ==
  CASE s.verified = "absent" -> "no output file created"
    [] s.verified = "empty" -> "empty file"
    [] OTHER -> ""

\* fs.stat(outputPath) settles; with a non-empty file fs.readFile is called
RecStat(i) ==
  /\ inv[i].pc = "stat" /\ inv[i].tool = "rec"
  /\ UNCHANGED <<pluginConfig, media>>
  /\ LET s == [inv[i] EXCEPT !.steps.stats = @ + 1, !.verified = disk[inv[i].outputPath]]
     IN IF RecVerify(s) # ""
          THEN Turn(i, RecCatch(s, RecVerify(s)), disk, RecCatchUnlinks(s), 0)
          ELSE Turn(i, [s EXCEPT !.pc = "reading"], disk, {}, 0)

\* fs.readFile(outputPath) settles; saveMediaBuffer is called
RecRead(i) ==
  /\ inv[i].pc = "reading" /\ inv[i].tool = "rec"
  /\ UNCHANGED <<pluginConfig, media>>
  /\ LET s == [inv[i] EXCEPT !.steps.reads = @ + 1]
     IN IF disk[s.outputPath] = "absent"
          THEN Turn(i, RecCatch(s, "ENOENT"), disk, RecCatchUnlinks(s), 0)
          ELSE Turn(i, [s EXCEPT !.pc = "saving", !.buffer = disk[s.outputPath],
                                 !.bufferBy = writer[s.outputPath]],
                    disk, {}, 0)

\* saveMediaBuffer settles; on success the video file is unlinked and the
\* result returned
RecSaved(i) ==
  /\ inv[i].pc = "saving" /\ inv[i].tool = "rec"
  /\ pluginConfig' = pluginConfig
  /\ \E k \in SaveOutcomes :
       LET s == [inv[i] EXCEPT !.steps.saves = @ + 1,
                               !.envFail = IF k = "ok" THEN @ ELSE "save"]
           entry == saveMediaBuffer(i, s.buffer, "video/mp4", "recordings")
           saved == Saved(Len(media) + 1, entry)
       IN IF k # "ok"
            THEN /\ media' = media
                 /\ Turn(i, RecCatch(s, "save failed"), disk, RecCatchUnlinks(s), 0)
            ELSE /\ media' = Append(media, entry)
                 /\ Turn(i,
                         [s EXCEPT !.pc = "done", !.saved = saved,
                                   !.res = [NoResult EXCEPT
                                              !.kind = "success",
                                              !.path = saved.path,
                                              !.size = saved.size,
                                              !.contentType = saved.contentType,
                                              !.duration = s.duration,
                                              !.fps = s.fps,
                                              !.monitor = s.monitor,
                                              !.monitorBounds = s.monitorBounds]],
                         disk, {s.outputPath}, 0)

(***************************************************************************)
(* findFfmpeg on its own, in every probe environment.                      *)
(***************************************************************************)
ProbeEnvs == [Candidates -> ProbeOutcomes]

FindConfigs ==
  [isObject : {TRUE},
   ffmpegPath : {Undefined, Num(W(1)), Str(0), Str(1)},
   defaultMonitor : {Undefined},
   screenshotFormat : {"undefined"},
   maxVideoDuration : {Undefined}]

InitFind ==
  /\ \E raw \in FindConfigs : pluginConfig = parse(raw)
  /\ inv = [i \in Inv |-> IF i = 1 THEN Idle ELSE [Idle EXCEPT !.pc = "off"]]
  /\ EmptyWorld
  /\ host = register(Unregistered("win32"))

\* const ffmpeg = findFfmpeg(pluginConfig.ffmpegPath)
FindFfmpegCall(i) ==
  /\ inv[i].pc = "idle"
  /\ \E env \in ProbeEnvs :
       LET found == findFfmpeg(pluginConfig.ffmpegPath, env)
       IN inv' = [inv EXCEPT ![i] =
                    [@ EXCEPT !.pc = "done", !.tool = "find", !.probeEnv = env,
                              !.ffmpeg = found.result, !.probed = found.probed,
                              !.steps.probes = Len(found.probed)]]
  /\ UNCHANGED <<pluginConfig, disk, pending, issued, nextPath, media, writer, host>>

NextFind == \E i \in Inv : FindFfmpegCall(i)

SpecFind == InitFind /\ [][NextFind]_vars

(***************************************************************************)
(* The specification: one invocation of any of the three tools.            *)
(***************************************************************************)
Next ==
  \/ Register
  \/ \E i \in Inv : ListMonitors(i)
  \/ \E i \in Inv : TakeScreenshot(i)
  \/ \E i \in Inv : ShotDelayed(i)
  \/ \E i \in Inv : ShotRead(i)
  \/ \E i \in Inv : ShotSaved(i)
  \/ \E i \in Inv : ShotBuilt(i)
  \/ \E i \in Inv : RecordScreen(i)
  \/ \E i \in Inv : RecStat(i)
  \/ \E i \in Inv : RecRead(i)
  \/ \E i \in Inv : RecSaved(i)
  \/ \E p \in TmpPaths : UnlinkDone(p)

Spec == Init /\ [][Next]_vars

(***************************************************************************)
(* Concurrent invocations: every invocation may be called, in any order,   *)
(* and the turns of different invocations interleave at their awaits.      *)
(***************************************************************************)
\* the requests of the concurrent specification: a screenshot with and
\* without a delay, a recording with and without a monitor
ConcShotArgs ==
  {a \in ShotArgs : a.monitor = Undefined /\ a.delay \in {Undefined, Num(W(10))}}

ConcRecArgs ==
  {a \in RecArgs : a.duration = Num(W(5)) /\ a.fps = Undefined
                    /\ a.monitor \in {Undefined, Num(0)}}

InitConc ==
  /\ pluginConfig = EmptyConfig
  /\ inv = [i \in Inv |-> Idle]
  /\ EmptyWorld
  /\ host = register(Unregistered("win32"))

NextConc ==
  \/ \E i \in Inv : ListMonitors(i)
  \/ \E i \in Inv : \E params \in ConcShotArgs : TakeScreenshotWith(i, params)
  \/ \E i \in Inv : ShotDelayed(i)
  \/ \E i \in Inv : ShotRead(i)
  \/ \E i \in Inv : ShotSaved(i)
  \/ \E i \in Inv : ShotBuilt(i)
  \/ \E i \in Inv : \E params \in ConcRecArgs : RecordScreenWith(i, params)
  \/ \E i \in Inv : RecStat(i)
  \/ \E i \in Inv : RecRead(i)
  \/ \E i \in Inv : RecSaved(i)
  \/ \E p \in TmpPaths : UnlinkDone(p)

SpecConc == InitConc /\ [][NextConc]_vars

(***************************************************************************)
(* The handlers at the grain of the JavaScript thread.  execSync and       *)
(* spawnSync return when the child has exited or was killed at its         *)
(* timeout: the only thread of the process is inside the call for as long  *)
(* as the child runs, and no other handler, timer or promise callback is   *)
(* run.  An await gives the thread back.  inv[i].child is the subprocess   *)
(* invocation i is inside a synchronous wait for, inv[i].promise the       *)
(* promise it awaits.                                                      *)
(***************************************************************************)
\* no invocation is inside execSync or spawnSync
ThreadFree == \A j \in Inv : inv[j].child = "none"

\* the promises a handler awaits after its subprocess, in order
Awaits(tool) ==
  CASE tool = "shot" -> <<"readFile", "saveMediaBuffer", "imageResultFromFile">>
    [] tool = "rec" -> <<"stat", "readFile", "saveMediaBuffer">>
    [] OTHER -> <<>>

\* the candidates findFfmpeg probes without a configured path
MaxProbes == 1 + Len(commonPaths)

InChild(s, child) == [s EXCEPT !.pc = "child", !.child = child]
Returned(s) == [s EXCEPT !.pc = "done", !.child = "none", !.promise = "none"]
Awaiting(s, k) == [s EXCEPT !.pc = "awaiting", !.child = "none", !.promise = Awaits(s.tool)[k]]

\* the rest of the world does not change at this grain
LoopFrame == UNCHANGED <<pluginConfig, disk, pending, issued, nextPath, media, writer, host>>

\* a tool is called: the handler runs up to its first execSync, spawnSync or await
LoopCall(i) ==
  /\ ThreadFree
  /\ inv[i].pc = "idle"
  /\ LoopFrame
  /\ \E s \in {InChild([inv[i] EXCEPT !.tool = "list"], "list script"),
                InChild([inv[i] EXCEPT !.tool = "shot"], "screenshot script"),
                [inv[i] EXCEPT !.tool = "shot", !.pc = "delaying", !.promise = "setTimeout"],
                InChild([inv[i] EXCEPT !.tool = "rec", !.steps.probes = 1], "probe"),
                Returned([inv[i] EXCEPT !.tool = "rec"])} :
       inv' = [inv EXCEPT ![i] = s]

\* the delay timer of take_screenshot fires: the handler goes on to execSync
LoopDelayed(i) ==
  /\ ThreadFree
  /\ inv[i].pc = "delaying"
  /\ inv[i].promise = "setTimeout"
  /\ LoopFrame
  /\ inv' = [inv EXCEPT ![i] = InChild([@ EXCEPT !.promise = "none"], "screenshot script")]

\* the child of invocation i exits or is killed at its timeout: execSync or
\* spawnSync returns or throws and the handler runs on, into the next
\* synchronous child, to an await or to its return
LoopChildExit(i) ==
  /\ inv[i].pc = "child"
  /\ LoopFrame
  /\ LET s == inv[i]
         next ==
           CASE s.child = "list script" -> {Returned(s)}
             [] s.child = "screenshot script" -> {Awaiting(s, 1), Returned(s)}
             [] s.child = "probe" ->
                  {InChild(s, "bounds script"), InChild(s, "encoder")}
                  \cup (IF s.steps.probes < MaxProbes
                          THEN {InChild([s EXCEPT !.steps.probes = @ + 1], "probe")}
                          ELSE {Returned(s)})
             [] s.child = "bounds script" -> {InChild(s, "encoder"), Returned(s)}
             [] OTHER -> {Awaiting(s, 1)}
     IN \E s1 \in next : inv' = [inv EXCEPT ![i] = s1]

\* the promise invocation i awaits settles and its continuation runs
LoopSettled(i) ==
  /\ ThreadFree
  /\ inv[i].pc = "awaiting"
  /\ LoopFrame
  /\ LET s == inv[i]
         k == CHOOSE n \in 1..Len(Awaits(s.tool)) : Awaits(s.tool)[n] = s.promise
         next == {Returned(s)} \cup
                 (IF k < Len(Awaits(s.tool)) THEN {Awaiting(s, k + 1)} ELSE {})
     IN \E s1 \in next : inv' = [inv EXCEPT ![i] = s1]

\* what invocation i does next, whichever it is
LoopStep(i) == LoopCall(i) \/ LoopDelayed(i) \/ LoopChildExit(i) \/ LoopSettled(i)

InitLoop == InitConc

NextLoop ==
  \/ \E i \in Inv : LoopCall(i)
  \/ \E i \in Inv : LoopDelayed(i)
  \/ \E i \in Inv : LoopChildExit(i)
  \/ \E i \in Inv : LoopSettled(i)

SpecLoop == InitLoop /\ [][NextLoop]_vars

(***************************************************************************)
(* Properties.                                                             *)
(***************************************************************************)
Done(i) == inv[i].pc = "done"

\* the temp paths invocation i allocated
Allocated(i) == {inv[i].outputPath, inv[i].scriptPath} \ {0}

\* the result is returned and every deletion the invocation started is over
Completed(i) == Done(i) /\ \A p \in Allocated(i) : pending[p] = 0

C2_ReleasedExactlyOnce ==
  \A i \in Inv :
    (Done(i) /\ inv[i].tool \in {"shot", "rec"}) =>
      \A p \in ({inv[i].outputPath} \cup
                (IF inv[i].tool = "shot" THEN {inv[i].scriptPath} ELSE {})) \ {0} :
        issued[p] = 1

\* the steps of invocation i
Step(i) ==
  \/ ShotDelayed(i) \/ ShotRead(i) \/ ShotSaved(i) \/ ShotBuilt(i)
  \/ RecStat(i) \/ RecRead(i) \/ RecSaved(i)

\* C3: every invocation ends with a well-formed result, a success result or
\* an error object with an "error" field, whichever step fails; it never
\* ends with an exception, and an unfinished invocation always has a next step.
C3_WellFormedResult ==
  \A i \in Inv :
    /\ Done(i) =>
         /\ inv[i].res.kind \in {"success", "error"}
         /\ inv[i].res.kind = "error" => inv[i].res.error # ""
         /\ inv[i].res.kind = "success" => inv[i].res.error = ""
    /\ inv[i].pc \in {"delaying", "reading", "saving", "building", "stat"} =>
         ENABLED Step(i)

\* a take_screenshot whose result building failed and that returned an error
C3_Witness ==
  \E i \in Inv :
    /\ Done(i) /\ inv[i].tool = "shot" /\ inv[i].steps.builds = 1
    /\ inv[i].envFail = "build" /\ inv[i].res.kind = "error"

\* C4: take_screenshot and record_screen return a result with a persisted path
\* only if the output temp file existed with a non-zero length when it was
\* verified; a zero-byte output never leads to a success result.
C4_SuccessNeedsNonEmptyOutput ==
  \A i \in Inv :
    (Done(i) /\ inv[i].tool \in {"shot", "rec"} /\ inv[i].res.kind = "success") =>
      inv[i].verified = "data"

\* the order findFfmpeg has to probe in
ProbeOrder(configPath) ==
  (IF Truthy(configPath) THEN <<"configPath">> ELSE <<>>) \o <<"ffmpeg">> \o commonPaths

\* C5: findFfmpeg probes the configured path (when set), then "ffmpeg", then
\* the well-known locations in list order; it returns the first candidate whose
\* probe exits with status 0, probes nothing after it, and returns null exactly
\* when no probe succeeds; a configured path that fails or throws does not stop
\* the later candidates from being tried.
C5_ProbeOrder ==
  \A i \in Inv :
    (Done(i) /\ inv[i].tool = "find") =>
      LET order == ProbeOrder(pluginConfig.ffmpegPath)
          env == inv[i].probeEnv
          probed == inv[i].probed
          n == Len(probed)
      IN /\ n >= 1 /\ n <= Len(order)
         /\ probed = SubSeq(order, 1, n)
         /\ \A k \in 1..(n - 1) : env[probed[k]] # "ok"
         /\ inv[i].ffmpeg # "null" =>
              inv[i].ffmpeg = probed[n] /\ env[probed[n]] = "ok"
         /\ inv[i].ffmpeg = "null" <=> \A k \in 1..Len(order) : env[order[k]] # "ok"
         /\ inv[i].ffmpeg = "null" => n = Len(order)

\* the configured path throws, the search path fails, the last well-known
\* location answers and is returned
C5_Witness ==
  \E i \in Inv :
    /\ Done(i) /\ inv[i].tool = "find"
    /\ Truthy(pluginConfig.ffmpegPath)
    /\ inv[i].probeEnv["configPath"] = "throw"
    /\ inv[i].probeEnv["ffmpeg"] = "fail"
    /\ inv[i].ffmpeg = commonPaths[Len(commonPaths)]
    /\ Len(inv[i].probed) = Len(commonPaths) + 2

\* C6: when no candidate passes its probe, record_screen returns "FFmpeg not
\* found" with a hint, and that invocation runs no monitor enumeration, starts
\* no encoder, allocates and writes no temp path and does not call the media
\* store.
C6_NoFfmpegNoSideEffect ==
  \A i \in Inv :
    (inv[i].tool = "rec" /\ inv[i].probed # <<>> /\ inv[i].firstOk = "null") =>
      /\ Done(i)
      /\ inv[i].res.kind = "error" /\ inv[i].res.error = "FFmpeg not found"
      /\ inv[i].res.hint
      /\ inv[i].steps.enums = 0 /\ inv[i].steps.encodes = 0
      /\ inv[i].steps.writes = 0 /\ inv[i].steps.execs = 0
      /\ inv[i].steps.saves = 0
      /\ Allocated(i) = {} /\ nextPath = 1
      /\ \A p \in TmpPaths : disk[p] = "absent" /\ issued[p] = 0
      /\ media = <<>>

\* a record_screen with a configured path that probed every candidate in vain
C6_Witness ==
  \E i \in Inv :
    /\ Done(i) /\ inv[i].tool = "rec" /\ inv[i].firstOk = "null"
    /\ Len(inv[i].probed) = Len(commonPaths) + 2
    /\ inv[i].res.error = "FFmpeg not found"

\* r is v clamped into [lo, hi]
Clamped(v, r, lo, hi) ==
  /\ v < lo => r = lo
  /\ v > hi => r = hi
  /\ (lo <= v /\ v <= hi) => r = v

\* q is the integer nearest to v, halves going up
Nearest(v, q) == q % Scale = 0 /\ 2 * (q - v) <= Scale /\ 2 * (v - q) < Scale

\* the encoder of invocation i was started
Encoded(i) == inv[i].tool = "rec" /\ inv[i].encoder.exit # "not run"

\* C7: for every integer duration and every maxVideoDuration that went through
\* configSchema.parse (absent, zero and negative ones too), the encoder's -t
\* value and the echoed duration satisfy 1 <= duration <= maxDuration <= 60:
\* above the ceiling gives the ceiling, below 1 gives 1, in range is unchanged.
C7_DurationInRange ==
  \A i \in Inv :
    (Encoded(i) /\ inv[i].args.duration.type = "number"
                /\ inv[i].args.duration.v % Scale = 0) =>
      LET max == maxDuration(pluginConfig)
          t == inv[i].encoder.t
      IN /\ W(1) <= t /\ t <= max /\ max <= W(60)
         /\ Clamped(inv[i].args.duration.v, t, W(1), max)
         /\ inv[i].res.kind = "success" => inv[i].res.duration = Num(t)

\* take_screenshot uses its delay as the claim says: clamped into [0,10], 0
\* when absent, waited for and echoed, and the request is never turned away
ShotDelayHonoured(i) ==
  (inv[i].tool = "shot" /\ inv[i].pc # "idle") =>
    /\ IF inv[i].args.delay.type = "number"
         THEN Clamped(inv[i].args.delay.v, inv[i].delay, W(0), W(10))
         ELSE inv[i].delay = 0
    /\ inv[i].timer = inv[i].delay
    /\ inv[i].steps.waits = (IF inv[i].delay > 0 THEN 1 ELSE 0)
    /\ inv[i].pc # "delaying" => inv[i].steps.writes = 1
    /\ inv[i].res.kind = "success" => inv[i].res.delay = inv[i].delay

\* record_screen is never turned away because of its fps: with a numeric
\* duration, a capture binary and bounds (when asked for) the encoder is started
RecFpsNeverRejected(i) ==
  (/\ inv[i].tool = "rec" /\ inv[i].pc # "idle"
   /\ inv[i].args.duration.type = "number"
   /\ inv[i].ffmpeg # "null"
   /\ (inv[i].monitor = Undefined \/ inv[i].monitorBounds # JSNull)) =>
    /\ Encoded(i)
    /\ inv[i].encoder.fps = inv[i].fps
    /\ inv[i].res.kind = "success" => inv[i].res.fps = inv[i].encoder.fps

\* C8 as stated: a numeric delay is clamped into [0,10] and an absent one is 0;
\* a numeric fps is clamped into [10,60] and an absent one is 30; values inside
\* the range are used unchanged; neither is a reason to reject, and the clamped
\* value is the one waited for, given to the encoder and echoed.
C8_ClampedUnchangedInRange ==
  \A i \in Inv :
    /\ ShotDelayHonoured(i)
    /\ RecFpsNeverRejected(i)
    /\ Encoded(i) =>
         IF inv[i].args.fps.type = "number"
           THEN Clamped(inv[i].args.fps.v, inv[i].encoder.fps, W(10), W(60))
           ELSE inv[i].encoder.fps = W(30)

\* C8 amended: as stated, except that a numeric fps is first rounded to the
\* nearest integer and then clamped into [10,60], so that only integer fps
\* values inside the range are used unchanged.
C8_RoundedThenClamped ==
  \A i \in Inv :
    /\ ShotDelayHonoured(i)
    /\ RecFpsNeverRejected(i)
    /\ Encoded(i) =>
         IF inv[i].args.fps.type = "number"
           THEN LET v == inv[i].args.fps.v
                IN /\ \E q \in (v - Scale)..(v + Scale) :
                        Nearest(v, q) /\ Clamped(q, inv[i].encoder.fps, W(10), W(60))
                   /\ (v % Scale = 0 /\ W(10) <= v /\ v <= W(60)) =>
                        inv[i].encoder.fps = v
           ELSE inv[i].encoder.fps = W(30)

\* a successful record_screen asked for 29.5 fps that recorded at 30
C8_Witness ==
  \E i \in Inv :
    /\ Done(i) /\ Encoded(i) /\ inv[i].res.kind = "success"
    /\ inv[i].args.fps = Num(W(29) + 1)
    /\ inv[i].encoder.fps = W(30) /\ inv[i].res.fps = W(30)

\* C9: record_screen without a numeric duration returns "duration is required"
\* and has no side effect: no probe, no enumeration, no temp path, no encoder,
\* no media store call.
C9_DurationRequired ==
  \A i \in Inv :
    (inv[i].tool = "rec" /\ inv[i].args.duration.type # "number") =>
      /\ Done(i)
      /\ inv[i].res.kind = "error" /\ inv[i].res.error = "duration is required"
      /\ inv[i].steps = NoSteps
      /\ inv[i].probed = <<>> /\ inv[i].ffmpeg = "not run"
      /\ ~Encoded(i)
      /\ Allocated(i) = {} /\ nextPath = 1
      /\ \A p \in TmpPaths : disk[p] = "absent" /\ issued[p] = 0
      /\ media = <<>>

\* a record_screen called with a duration that is a string
C9_Witness ==
  \E i \in Inv :
    /\ Done(i) /\ inv[i].tool = "rec" /\ inv[i].args.duration.type = "string"
    /\ inv[i].res.error = "duration is required"

\* the script of invocation i ran with an index past the last display
OutOfRange(i) ==
  /\ inv[i].tool = "shot" /\ inv[i].screens > 0
  /\ inv[i].monitor.v >= W(inv[i].screens)

\* C10: take_screenshot with a monitor index >= the number of displays captures
\* display 0, returns no error that the environment did not cause, and its
\* success result echoes the requested index with the path the media store
\* assigned.
C10_OutOfRangeFallsBack ==
  \A i \in Inv :
    OutOfRange(i) =>
      /\ inv[i].captured \in {-1, 0}
      /\ inv[i].pc \in {"saving", "building"} => inv[i].captured = 0
      /\ (Done(i) /\ inv[i].res.kind = "error") => inv[i].envFail # "none"
      /\ (Done(i) /\ inv[i].res.kind = "success") =>
           /\ inv[i].captured = 0
           /\ inv[i].res.monitor = inv[i].monitor
           /\ inv[i].res.monitor.v >= W(inv[i].screens)
           /\ inv[i].res.path = inv[i].saved.path
           /\ inv[i].res.path.dir = "media"

\* two displays, monitor 5 asked for: display 0 captured, 5 echoed
C10_Witness ==
  \E i \in Inv :
    /\ OutOfRange(i) /\ Done(i) /\ inv[i].res.kind = "success"
    /\ inv[i].screens = MaxScreens /\ inv[i].args.monitor = Num(W(MaxScreens + 3))
    /\ inv[i].captured = 0 /\ inv[i].res.monitor = Num(W(MaxScreens + 3))

\* invocation i is a list_monitors call that returned its descriptors
Listed(i) == Done(i) /\ inv[i].tool = "list" /\ inv[i].res.kind = "success"

\* C11: for an enumeration output of N records, whatever their index fields
\* hold, list_monitors returns N descriptors in emission order with the index
\* values 0, 1, ..., N-1 (positional), and count equal to N.
C11_PositionalIndices ==
  \A i \in Inv :
    Listed(i) =>
      LET out == createListMonitorsScript(inv[i].screens)
          monitors == inv[i].res.monitors
      IN /\ Len(monitors) = Len(out)
         /\ inv[i].res.count = Len(out)
         /\ \A k \in 1..Len(monitors) :
              /\ monitors[k].index = Num(W(k - 1))
              /\ monitors[k].width = parseInt(Field(out[k], 3))

\* record_screen invocation i has called getMonitorBounds
Enumerated(i) == inv[i].tool = "rec" /\ inv[i].steps.enums = 1

\* the bounds of the display at position k
BoundsOfScreen(k) ==
  [x |-> Num(W(ScreenX(k))), y |-> Num(0),
   width |-> Num(W(ScreenWidth)), height |-> Num(W(ScreenHeight))]

\* the requested index names one of the n displays
Matches(m, n) == \E k \in 0..(n - 1) : m = Num(W(k))

\* C12: getMonitorBounds(index) returns the bounds of the record whose index
\* matches; with no match and a non-empty enumeration it returns the bounds of
\* the first enumerated display; it returns null exactly when the enumeration
\* yields no record or the script write or the enumeration call fails.
C12_BoundsOrFirstOrNull ==
  \A i \in Inv :
    Enumerated(i) =>
      LET m == inv[i].monitor
          n == inv[i].screens
          b == inv[i].monitorBounds
      IN /\ (inv[i].enumExit = "ok" /\ Matches(m, n)) =>
              \E k \in 0..(n - 1) : m = Num(W(k)) /\ b = BoundsOfScreen(k)
         /\ (inv[i].enumExit = "ok" /\ ~Matches(m, n) /\ n > 0) => b = BoundsOfScreen(0)
         /\ (b = JSNull) <=> (inv[i].enumExit # "ok" \/ n = 0)

\* the parts of C12 the code keeps: a match gives that display's bounds, and
\* null is returned exactly when the write or the enumeration call fails
C12_MatchAndNull ==
  \A i \in Inv :
    Enumerated(i) =>
      LET m == inv[i].monitor
          n == inv[i].screens
          b == inv[i].monitorBounds
      IN /\ (inv[i].enumExit = "ok" /\ Matches(m, n)) =>
              \E k \in 0..(n - 1) : m = Num(W(k)) /\ b = BoundsOfScreen(k)
         /\ (b = JSNull) <=> (inv[i].enumExit # "ok")

\* C13: in record_screen, a requested monitor whose bounds getMonitorBounds
\* cannot resolve ends the invocation with "Failed to get monitor bounds"
\* before a video path is allocated and before the encoder starts; without a
\* requested monitor the enumeration never runs, the encoder gets no offset or
\* size restriction and the result reports monitorBounds as null.
C13_BoundsBeforeEncoder ==
  \A i \in Inv :
    inv[i].tool = "rec" =>
      /\ (Enumerated(i) /\ inv[i].monitorBounds = JSNull) =>
            /\ Done(i)
            /\ inv[i].res.kind = "error"
            /\ inv[i].res.error = "Failed to get monitor bounds"
            /\ inv[i].res.hint
            /\ inv[i].outputPath = 0
            /\ inv[i].steps.encodes = 0
            /\ inv[i].encoder.exit = "not run"
      /\ Enumerated(i) => inv[i].args.monitor.type = "number"
      /\ inv[i].args.monitor.type # "number" =>
            /\ inv[i].steps.enums = 0
            /\ inv[i].scriptPath = 0
            /\ inv[i].monitorBounds = JSNull
            /\ inv[i].encoder.region = JSNull
            /\ inv[i].res.monitorBounds = JSNull

C13_Witness ==
  \E i \in Inv :
    /\ Enumerated(i) /\ inv[i].enumExit = "timeout" /\ inv[i].monitorBounds = JSNull
    /\ Done(i) /\ inv[i].res.error = "Failed to get monitor bounds"

\* C14: in every result of take_screenshot and record_screen every reported
\* path is the path the media store returned from save, and neither the temp
\* output path nor the temp script path of the invocation appears in the result.
C14_OnlySavedPathReported ==
  \A i \in Inv :
    (Done(i) /\ inv[i].tool \in {"shot", "rec"}) =>
      /\ inv[i].res.path # NoPath =>
           /\ inv[i].saved.ok
           /\ inv[i].res.path = inv[i].saved.path
           /\ inv[i].res.path.dir = "media"
           /\ inv[i].res.path.id \in 1..Len(media)
           /\ media[inv[i].res.path.id].by = i
      /\ inv[i].res.refs \cap Allocated(i) = {}

\* a subprocess of invocation i (the list or screenshot script, the bounds
\* enumeration, the encoder) ran into its timeout
TimedOut(i) ==
  \/ inv[i].tool \in {"list", "shot"} /\ inv[i].envFail = "timeout"
  \/ inv[i].tool = "rec" /\ inv[i].enumExit = "timeout"
  \/ inv[i].tool = "rec" /\ inv[i].encoder.exit = "timeout"

\* C15: whenever a subprocess run by one of the three tools exceeds its
\* timeout, the invocation returns an error result and never a success, also
\* when the encoder of record_screen had already written a non-empty file.
C15_TimeoutIsError ==
  \A i \in Inv :
    (Done(i) /\ TimedOut(i)) => inv[i].res.kind = "error"

\* C16: once the encoder has run, the outcome of record_screen depends only
\* on the output file and the media store, for every exit status of the
\* encoder: a missing file gives "no output file created", a file of size zero
\* gives "empty file", a non-empty file the media store accepts gives success.
C16_OutcomeFromArtifactOnly ==
  \A i \in Inv :
    (Encoded(i) /\ inv[i].steps.stats = 1) =>
      /\ inv[i].verified = "absent" =>
           /\ Done(i) /\ inv[i].res.kind = "error"
           /\ inv[i].res.details = "no output file created"
      /\ inv[i].verified = "empty" =>
           /\ Done(i) /\ inv[i].res.kind = "error"
           /\ inv[i].res.details = "empty file"
      /\ (inv[i].verified = "data" /\ inv[i].saved.ok) =>
           Done(i) /\ inv[i].res.kind = "success"
      /\ (inv[i].verified = "data" /\ Done(i) /\ inv[i].res.kind = "error") =>
           /\ inv[i].steps.saves = 1 /\ ~inv[i].saved.ok
           /\ inv[i].res.details = "save failed"

C16_Witness ==
  \E i \in Inv :
    /\ Encoded(i) /\ inv[i].encoder.exit = "fail"
    /\ inv[i].verified = "data" /\ Done(i) /\ inv[i].res.kind = "success"

\* C20: registration registers the three tools exactly when the platform is
\* win32; on any other platform it registers no tool and reports the mismatch
\* once, as a warning at registration, so that no tool is ever invoked on an
\* unsupported platform.
C20_WindowsOnly ==
  /\ ~host.registered => host.tools = {} /\ host.warnings = 0
  /\ host.registered =>
       /\ (host.tools = ToolNames) <=> (host.platform = "win32")
       /\ host.platform # "win32" => host.tools = {} /\ host.warnings = 1
       /\ host.platform = "win32" => host.warnings = 0
  /\ \A i \in Inv :
       inv[i].tool \in {"list", "shot", "rec"} =>
         host.platform = "win32" /\ host.registered

C20_Witness ==
  /\ host.registered /\ host.platform = "linux"
  /\ host.tools = {} /\ host.warnings = 1
  /\ \A i \in Inv : inv[i].tool = "none"

\* invocation i has been called
Called(i) == inv[i].tool \in {"list", "shot", "rec"}

\* C18: in every interleaving of concurrent invocations the temp paths they
\* allocate are disjoint, every file is written only by the invocation that
\* allocated its path, every deletion is of a path some invocation allocated,
\* and the bytes an invocation hands to the media store are the ones its own
\* subprocess wrote.
C18_Isolation ==
  /\ \A i, j \in Inv : i # j => Allocated(i) \cap Allocated(j) = {}
  /\ \A p \in TmpPaths :
       /\ writer[p] # 0 => p \in Allocated(writer[p])
       /\ issued[p] > 0 => \E i \in Inv : p \in Allocated(i)
       /\ p >= nextPath => disk[p] = "absent" /\ issued[p] = 0 /\ writer[p] = 0
  /\ \A i \in Inv :
       /\ inv[i].buffer # "none" => inv[i].bufferBy = i
       /\ \A p \in Allocated(i) : p < nextPath
  /\ \A k \in 1..Len(media) :
       LET i == media[k].by
       IN inv[i].bufferBy = i /\ media[k].bytes = inv[i].buffer

C18_Witness ==
  \E i, j \in Inv :
    /\ i # j
    /\ inv[i].tool = "shot" /\ inv[i].pc = "saving"
    /\ inv[j].tool = "rec" /\ inv[j].pc = "saving"
    /\ inv[j].outputPath < inv[i].outputPath

\* invocation i is inside the synchronous wait for its subprocess
WaitingForChild(i) == inv[i].pc = "child" /\ inv[i].child # "none"

\* invocation j has something to do that does not depend on a subprocess of
\* its own: it can be called, its timer can fire, its promise can settle
Ready(j) == inv[j].pc \in {"idle", "delaying", "awaiting"}

\* C17: while one invocation waits for its subprocess (enumeration script,
\* screenshot script, probe or encoder), every other invocation can still take
\* its next step: the wait blocks only the invocation that waits.
C17_WaitBlocksOnlyCaller ==
  \A i, j \in Inv :
    (i # j /\ WaitingForChild(i) /\ Ready(j)) => ENABLED LoopStep(j)

\* what the code does instead: at most one subprocess runs at any time
C17_OneChildAtATime ==
  \A i, j \in Inv : (WaitingForChild(i) /\ WaitingForChild(j)) => i = j

\* the steps take_screenshot may take from one await to the next
ShotOrder ==
  {<<"idle", "delaying">>, <<"idle", "reading">>, <<"idle", "done">>,
   <<"delaying", "reading">>, <<"delaying", "done">>,
   <<"reading", "saving">>, <<"reading", "done">>,
   <<"saving", "building">>, <<"saving", "done">>,
   <<"building", "done">>}

\* where invocation i of take_screenshot stands
C19_State(i) ==
  LET s == inv[i]
  IN /\ s.steps.waits = (IF s.delay > 0 THEN 1 ELSE 0)
     /\ s.pc = "delaying" =>
          s.outputPath = 0 /\ s.scriptPath = 0 /\ s.steps.writes = 0 /\ s.timer > 0
     /\ s.steps.writes <= 1 /\ s.steps.execs <= s.steps.writes
     /\ s.steps.reads <= s.steps.execs /\ s.steps.saves <= s.steps.reads
     /\ s.steps.builds <= s.steps.saves
     /\ s.steps.writes = 1 <=> s.outputPath # 0
     /\ s.pc = "reading" => s.steps.execs = 1 /\ s.steps.reads = 0
     /\ s.pc = "saving" => s.steps.reads = 1 /\ s.steps.saves = 0
     /\ s.pc = "building" => s.steps.saves = 1 /\ s.steps.builds = 0 /\ s.saved.ok
     /\ Done(i) <=> s.res.kind \in {"success", "error"}
     /\ s.res.kind = "success" => s.steps.builds = 1 /\ s.saved.ok

\* C19: every take_screenshot goes through Idle, Delaying (only with a clamped
\* delay above 0), CommandBuilt, Executing, Verifying and ends in exactly one
\* of Persisted and Failed; the delay comes at most once and before any temp
\* path is allocated or script written; the script write, the subprocess run,
\* the read and the save each happen at most once; after the result is
\* returned the invocation takes no further step.
C19_Lifecycle ==
  /\ [](\A i \in Inv : inv[i].tool = "shot" => C19_State(i))
  /\ [][\A i \in Inv :
          /\ (inv'[i].tool = "shot" /\ inv'[i].pc # inv[i].pc) =>
               <<inv[i].pc, inv'[i].pc>> \in ShotOrder
          /\ (inv[i].tool = "shot" /\ Done(i)) => inv'[i] = inv[i]]_vars

C19_Witness ==
  \E i \in Inv :
    /\ inv[i].tool = "shot" /\ Done(i) /\ inv[i].res.kind = "success"
    /\ inv[i].steps.waits = 1 /\ inv[i].delay = W(MaxDelay)
    /\ inv[i].steps.writes = 1 /\ inv[i].steps.saves = 1

\* invocation i of take_screenshot or record_screen has run the subprocess
\* that produces its output file
Produced(i) ==
  \/ inv[i].tool = "shot" /\ inv[i].steps.execs = 1
  \/ inv[i].tool = "rec" /\ inv[i].steps.encodes = 1

\* where invocation i stands with respect to the media store
C21_State(i) ==
  LET s == inv[i]
  IN /\ s.steps.saves <= 1 /\ s.steps.reads <= 1
     /\ s.steps.saves = 1 =>
          /\ Produced(i) /\ s.steps.reads = 1
          /\ s.buffer \in {"empty", "data"}
     /\ s.steps.reads = 1 => Produced(i)
     /\ (s.outputPath # 0 /\ issued[s.outputPath] > 0) =>
          s.saved.ok \/ (Done(i) /\ s.res.kind = "error")
     /\ s.saved.ok =>
          /\ s.steps.saves = 1
          /\ \E k \in 1..Len(media) :
               /\ s.saved.path = MediaPath(k)
               /\ media[k].by = i /\ media[k].bytes = s.buffer
     /\ s.res.kind = "success" => s.saved.ok /\ s.res.path = s.saved.path

\* C21: in take_screenshot and record_screen the media store's save is called
\* at most once per invocation and only after the subprocess has run and the
\* output file has been read in full; no deletion of the output file is
\* issued before its bytes are read; a success result is returned only after
\* save has returned successfully.
C21_SaveOnceAfterRead ==
  /\ [](\A i \in Inv : inv[i].tool \in {"shot", "rec"} => C21_State(i))
  /\ [][\A i \in Inv :
          /\ (inv[i].tool \in {"shot", "rec"}
              /\ inv'[i].steps.reads = inv[i].steps.reads + 1) =>
               /\ issued[inv[i].outputPath] = 0
               /\ pending[inv[i].outputPath] = 0
               /\ inv'[i].buffer \in {"none", disk[inv[i].outputPath]}
          /\ (inv'[i].tool \in {"shot", "rec"}
              /\ inv'[i].steps.saves = inv[i].steps.saves + 1) =>
               /\ inv[i].pc = "saving" /\ inv[i].steps.reads = 1
               /\ inv[i].buffer # "none"
               /\ Len(media') <= Len(media) + 1]_vars

C21_Witness ==
  \E i \in Inv :
    /\ inv[i].tool = "rec" /\ Done(i) /\ inv[i].res.kind = "success"
    /\ inv[i].steps.saves = 1 /\ inv[i].steps.reads = 1
    /\ issued[inv[i].outputPath] = 1 /\ Len(media) = 1

\* the entries of the media store that invocation i persisted
PersistedBy(i) == {k \in 1..Len(media) : media[k].by = i}

\* C22: an invocation of take_screenshot or record_screen that returns an
\* error result has persisted nothing through the media store: whenever its
\* save succeeded, it returns a success result that references the saved path.
C22_ErrorMeansNothingPersisted ==
  \A i \in Inv :
    (Done(i) /\ inv[i].tool \in {"shot", "rec"}) =>
      /\ inv[i].res.kind = "error" => PersistedBy(i) = {} /\ ~inv[i].saved.ok
      /\ inv[i].saved.ok =>
           inv[i].res.kind = "success" /\ inv[i].res.path = inv[i].saved.path

====
